---- MODULE Spec2Model ----
(***************************************************************************)
(* Model of the quiz application (component App and its children QuizArea, *)
(* MCQBlock, ManualBlock and AdminArea).  The React state of App is the    *)
(* state of the model; every event handler is one action, guarded by the   *)
(* condition under which the control that triggers it is rendered.         *)
(***************************************************************************)
EXTENDS Integers, Sequences, FiniteSets, TLC

VARIABLES
    tab,          \* "welcome" | "quiz" | "admin"
    questions,    \* the question bank, a sequence of question records
    hints,        \* map ip -> hint text
    selectedIP,   \* "" or the ip chosen in the sidebar
    basket,       \* sequence of selected question ids
    phase,        \* "pick" | "running" | "confirm" | "finished"
    answers,      \* map question id -> map field -> value
    adminMode,    \* BOOLEAN
    lsPin,        \* localStorage item ipquiz.admin.pin, "" when absent
    alertMsg,     \* text of the alert() raised by the last handler, "" when none
    lastOp,       \* the last control used, by the session handler it runs and
                  \* the id and payload given to it; "other" for a control
                  \* that runs none
    nextId,       \* source of fresh ids for uid()
    adminOps,     \* number of bank mutations made so far
    lsQuestions,  \* localStorage item ipquiz.questions.v2
    lsHints,      \* localStorage item ipquiz.hints.v2
    cache,        \* dataSource.js: the module variable cache
    store,        \* dataSource.js: the localStorage items it reads and writes
    api,          \* the question bank stored behind /api/questions
    calls,        \* dataSource.js: the requests under way, in the order sent
    isDev,        \* dataSource.js: the constant isDev of the build
    ret           \* dataSource.js: the last call settled: its function, the
                  \* value it resolved to and whether it read the storage
                  \* or the network

\* the items the App component keeps in localStorage
lsVars == <<lsQuestions, lsHints>>

\* the state of the module dataSource.js and of what it talks to
dsVars == <<cache, store, api, calls, isDev, ret>>

vars == <<tab, questions, hints, selectedIP, basket, phase, answers,
          adminMode, lsPin, alertMsg, lastOp, nextId, adminOps,
          lsQuestions, lsHints, cache, store, api, calls, isDev, ret>>

----------------------------------------------------------------------------
(* Bounds of the model *)

\* how many times the administrator saves or deletes a question in one run
MaxAdminOps == 1

\* requests of dataSource.js under way at a time
MaxCalls == 2

(* Program constants *)

\* const totalOk = basket.length < 5
TotalCap == 5
\* const ipOk = (perIPCounts[q.ip] || 0) < 2
PerIPCap == 2

LEVEL_POINTS == [a |-> 3, b |-> 2, c |-> 1, s |-> 5]

Levels == {"a", "b", "c", "s"}

\* keys of TYPE_LABELS
QTypes == {"mcq", "fill", "short", "reading"}

\* the values of the phase state
Phases == {"pick", "running", "confirm", "finished"}

Tabs == {"welcome", "quiz", "admin"}

\* localStorage.getItem(LS_PIN) || "1234"
DefaultPin == "1234"

\* changeAdminPin: if (newPin.length < 4)
MinPinLen == 4

\* the alert texts, by their meaning
AlertTotalCap == "total cap reached (max 5)"
AlertIPCap == "ip cap reached (max 2)"
AlertEmptyBasket == "select questions first"
AlertBadPin == "wrong PIN"
AlertPinEmpty == "new PIN must not be empty"
AlertPinShort == "PIN needs at least 4 characters"
AlertPinUpdated == "admin PIN updated"
AlertPickIPForHint == "select an ip before saving a hint"
AlertHintSaved == "hint saved"
AlertIpEmpty == "ip name must not be empty"
AlertIpExists == "ip name exists already"
AlertIpAdded == "ip added"
AlertNeedIPTitle == "fill in ip and title"
AlertTwoOptions == "mcq needs two options"
AlertOneCorrect == "select at least one correct option"

----------------------------------------------------------------------------
(* Plain JavaScript values *)

\* the object literal {}
EmptyMap == [k \in {} |-> 0]

\* m[k] || d
Get(m, k, d) == IF k \in DOMAIN m THEN m[k] ELSE d

\* new Set(array)
ToSet(s) == {s[i] : i \in DOMAIN s}

\* array.filter(x => x !== v)
RECURSIVE Without(_, _)
Without(s, v) ==
    IF s = <<>> THEN <<>>
    ELSE IF Head(s) = v THEN Without(Tail(s), v)
    ELSE <<Head(s)>> \o Without(Tail(s), v)

\* array.includes(v)
Includes(s, v) == \E i \in DOMAIN s : s[i] = v

\* {...old, ...data}
Merge(old, data) == data @@ old

----------------------------------------------------------------------------
(* Questions *)

McqQuestion(id, ip, level, options, correct, multi) ==
    [id |-> id, ip |-> ip, type |-> "mcq", level |-> level, title |-> "t",
     options |-> options, correctIndices |-> correct, isMultiChoice |-> multi]

ManualQuestion(id, ip, type, level) ==
    [id |-> id, ip |-> ip, type |-> type, level |-> level, title |-> "t"]

\* questions.find((x) => x.id === id) is not undefined
HasQ(qs, id) == \E i \in 1..Len(qs) : qs[i].id = id

\* questions.find((x) => x.id === id): the first question with that id
find(qs, id) ==
    qs[CHOOSE i \in 1..Len(qs) :
          qs[i].id = id /\ \A j \in 1..(i - 1) : qs[j].id # id]

BankIds(qs) == {qs[i].id : i \in 1..Len(qs)}

\* the ips memo: the ips of the bank and the keys of the hint map
ips(qs, hs) == {qs[i].ip : i \in 1..Len(qs)} \cup DOMAIN hs

----------------------------------------------------------------------------
(* Selection and basket *)

\* the perIPCounts memo: a loop over the basket that skips ids not in the bank
RECURSIVE perIPCountsFrom(_, _, _, _)
perIPCountsFrom(b, qs, k, m) ==
    IF k > Len(b) THEN m
    ELSE IF ~HasQ(qs, b[k]) THEN perIPCountsFrom(b, qs, k + 1, m)
    ELSE LET q == find(qs, b[k])
         IN perIPCountsFrom(b, qs, k + 1, (q.ip :> (Get(m, q.ip, 0) + 1)) @@ m)

\* perIPCounts with m[q.ip] = (m[q.ip] || 0): the increment forgotten
perIPCounts_NoIncrement(b, qs) ==
    [t \in DOMAIN perIPCountsFrom(b, qs, 1, EmptyMap) |-> 0]

perIPCounts(b, qs) == perIPCountsFrom(b, qs, 1, EmptyMap)

inBasket(b, id) == Includes(b, id)

\* toggleBasket with the per-ip alert raised after the basket was extended
toggleBasket_AlertAfterAdd(b, qs, ph, id) ==
    IF ph # "pick" THEN [basket |-> b, alert |-> ""]
    ELSE IF inBasket(b, id) THEN [basket |-> Without(b, id), alert |-> ""]
    ELSE IF ~HasQ(qs, id) THEN [basket |-> b, alert |-> ""]
    ELSE LET q == find(qs, id)
             totalOk == Len(b) < TotalCap
             ipOk == Get(perIPCounts(b, qs), q.ip, 0) < PerIPCap
         IN IF ~totalOk THEN [basket |-> b, alert |-> AlertTotalCap]
            ELSE IF ~ipOk THEN [basket |-> Append(b, id), alert |-> AlertIPCap]
            ELSE [basket |-> Append(b, id), alert |-> ""]

\* toggleBasket adding with [id, ...basket]
toggleBasket_Prepend(b, qs, ph, id) ==
    IF ph # "pick" THEN [basket |-> b, alert |-> ""]
    ELSE IF inBasket(b, id) THEN [basket |-> Without(b, id), alert |-> ""]
    ELSE IF ~HasQ(qs, id) THEN [basket |-> b, alert |-> ""]
    ELSE LET q == find(qs, id)
             totalOk == Len(b) < TotalCap
             ipOk == Get(perIPCounts(b, qs), q.ip, 0) < PerIPCap
         IN IF ~totalOk THEN [basket |-> b, alert |-> AlertTotalCap]
            ELSE IF ~ipOk THEN [basket |-> b, alert |-> AlertIPCap]
            ELSE [basket |-> <<id>> \o b, alert |-> ""]

\* toggleBasket removing with basket.filter((x) => x === id)
toggleBasket_KeepOnlyId(b, qs, ph, id) ==
    IF ph # "pick" THEN [basket |-> b, alert |-> ""]
    ELSE IF inBasket(b, id) THEN [basket |-> <<id>>, alert |-> ""]
    ELSE IF ~HasQ(qs, id) THEN [basket |-> b, alert |-> ""]
    ELSE LET q == find(qs, id)
             totalOk == Len(b) < TotalCap
             ipOk == Get(perIPCounts(b, qs), q.ip, 0) < PerIPCap
         IN IF ~totalOk THEN [basket |-> b, alert |-> AlertTotalCap]
            ELSE IF ~ipOk THEN [basket |-> b, alert |-> AlertIPCap]
            ELSE [basket |-> Append(b, id), alert |-> ""]

\* toggleBasket without if (!q) return, reading the ip as q?.ip: an id that
\* no question has counts for no ip
toggleBasket_NoExistenceCheck(b, qs, ph, id) ==
    IF ph # "pick" THEN [basket |-> b, alert |-> ""]
    ELSE IF inBasket(b, id) THEN [basket |-> Without(b, id), alert |-> ""]
    ELSE LET totalOk == Len(b) < TotalCap
             ipOk == IF HasQ(qs, id)
                     THEN Get(perIPCounts(b, qs), find(qs, id).ip, 0) < PerIPCap
                     ELSE TRUE
         IN IF ~totalOk THEN [basket |-> b, alert |-> AlertTotalCap]
            ELSE IF ~ipOk THEN [basket |-> b, alert |-> AlertIPCap]
            ELSE [basket |-> Append(b, id), alert |-> ""]

\* toggleBasket without if (phase !== "pick") return
toggleBasket_NoPhaseGuard(b, qs, ph, id) ==
    IF inBasket(b, id) THEN [basket |-> Without(b, id), alert |-> ""]
    ELSE IF ~HasQ(qs, id) THEN [basket |-> b, alert |-> ""]
    ELSE LET q == find(qs, id)
             totalOk == Len(b) < TotalCap
             ipOk == Get(perIPCounts(b, qs), q.ip, 0) < PerIPCap
         IN IF ~totalOk THEN [basket |-> b, alert |-> AlertTotalCap]
            ELSE IF ~ipOk THEN [basket |-> b, alert |-> AlertIPCap]
            ELSE [basket |-> Append(b, id), alert |-> ""]

\* toggleBasket with the guard if (phase === "running") return
toggleBasket_GuardRunningOnly(b, qs, ph, id) ==
    IF ph = "running" THEN [basket |-> b, alert |-> ""]
    ELSE IF inBasket(b, id) THEN [basket |-> Without(b, id), alert |-> ""]
    ELSE IF ~HasQ(qs, id) THEN [basket |-> b, alert |-> ""]
    ELSE LET q == find(qs, id)
             totalOk == Len(b) < TotalCap
             ipOk == Get(perIPCounts(b, qs), q.ip, 0) < PerIPCap
         IN IF ~totalOk THEN [basket |-> b, alert |-> AlertTotalCap]
            ELSE IF ~ipOk THEN [basket |-> b, alert |-> AlertIPCap]
            ELSE [basket |-> Append(b, id), alert |-> ""]

\* toggleBasket(id): the new basket and the alert raised
toggleBasket(b, qs, ph, id) ==
    IF ph # "pick" THEN [basket |-> b, alert |-> ""]
    ELSE IF inBasket(b, id) THEN [basket |-> Without(b, id), alert |-> ""]
    ELSE IF ~HasQ(qs, id) THEN [basket |-> b, alert |-> ""]
    ELSE LET q == find(qs, id)
             totalOk == Len(b) < TotalCap
             ipOk == Get(perIPCounts(b, qs), q.ip, 0) < PerIPCap
         IN IF ~totalOk THEN [basket |-> b, alert |-> AlertTotalCap]
            ELSE IF ~ipOk THEN [basket |-> b, alert |-> AlertIPCap]
            ELSE [basket |-> Append(b, id), alert |-> ""]

\* the visibleQuestions memo of QuizArea, as the set of ids shown
visibleQuestions(qs, sel, b, ph) ==
    IF ph = "pick"
    THEN {qs[i].id : i \in {j \in 1..Len(qs) : sel = "" \/ qs[j].ip = sel}}
    ELSE {qs[i].id : i \in {j \in 1..Len(qs) : Includes(b, qs[j].id)}}

----------------------------------------------------------------------------
(* Scoring *)

\* gained with the level points given for any manual score above 0
gained_ManualFullPoints(q, as) ==
    IF q.type = "mcq"
    THEN IF q.id \in DOMAIN as /\ "chosenIndices" \in DOMAIN as[q.id]
         THEN IF ToSet(Get(q, "correctIndices", <<>>)) = ToSet(as[q.id].chosenIndices)
              THEN LEVEL_POINTS[q.level]
              ELSE 0
         ELSE 0
    ELSE IF q.id \in DOMAIN as /\ "manualScore" \in DOMAIN as[q.id]
              /\ as[q.id].manualScore > 0
         THEN LEVEL_POINTS[q.level]
         ELSE 0

\* the points one basket question gains
gained(q, as) ==
    IF q.type = "mcq"
    THEN IF q.id \in DOMAIN as /\ "chosenIndices" \in DOMAIN as[q.id]
         THEN LET correctIndicesSet == ToSet(Get(q, "correctIndices", <<>>))
                  chosenIndicesSet == ToSet(as[q.id].chosenIndices)
                  allCorrectChosen ==
                      \A c \in correctIndicesSet : c \in chosenIndicesSet
                  noIncorrectChosen ==
                      \A c \in chosenIndicesSet : c \in correctIndicesSet
              IN IF /\ allCorrectChosen
                    /\ noIncorrectChosen
                    /\ Cardinality(correctIndicesSet) = Cardinality(chosenIndicesSet)
                 THEN LEVEL_POINTS[q.level]
                 ELSE 0
         ELSE 0
    ELSE IF q.id \in DOMAIN as /\ "manualScore" \in DOMAIN as[q.id]
         THEN as[q.id].manualScore
         ELSE 0

\* scoreFrom reading the manual score before the check that the question
\* exists, so that a deleted question still adds to the total
RECURSIVE scoreFrom_ScoreBeforeSkip(_, _, _, _, _)
scoreFrom_ScoreBeforeSkip(b, qs, as, k, acc) ==
    IF k > Len(b) THEN acc
    ELSE IF ~HasQ(qs, b[k])
    THEN scoreFrom_ScoreBeforeSkip(b, qs, as, k + 1,
             [acc EXCEPT !.total =
                 @ + Get(Get(as, b[k], EmptyMap), "manualScore", 0)])
    ELSE LET q == find(qs, b[k])
             g == gained(q, as)
         IN scoreFrom_ScoreBeforeSkip(b, qs, as, k + 1,
               [total |-> acc.total + g,
                byIP |-> (q.ip :> (Get(acc.byIP, q.ip, 0) + g)) @@ acc.byIP,
                byLevel |-> (q.level :> (Get(acc.byLevel, q.level, 0) + g))
                               @@ acc.byLevel])

\* the scoreSummary memo: a loop over the basket that skips ids not in the bank
RECURSIVE scoreFrom(_, _, _, _, _)
scoreFrom(b, qs, as, k, acc) ==
    IF k > Len(b) THEN acc
    ELSE IF ~HasQ(qs, b[k]) THEN scoreFrom(b, qs, as, k + 1, acc)
    ELSE LET q == find(qs, b[k])
             g == gained(q, as)
         IN scoreFrom(b, qs, as, k + 1,
               [total |-> acc.total + g,
                byIP |-> (q.ip :> (Get(acc.byIP, q.ip, 0) + g)) @@ acc.byIP,
                byLevel |-> (q.level :> (Get(acc.byLevel, q.level, 0) + g))
                               @@ acc.byLevel])

\* scoreSummary with the loop over the questions of the bank instead of
\* the basket
scoreSummary_OverBank(b, qs, as) ==
    scoreFrom([i \in 1..Len(qs) |-> qs[i].id], qs, as, 1,
              [total |-> 0, byIP |-> EmptyMap,
               byLevel |-> [a |-> 0, b |-> 0, c |-> 0, s |-> 0]])

\* scoreSummary with byLevel started as {} instead of the four zero entries
scoreSummary_NoLevelInit(b, qs, as) ==
    scoreFrom(b, qs, as, 1,
              [total |-> 0, byIP |-> EmptyMap, byLevel |-> EmptyMap])

scoreSummary(b, qs, as) ==
    scoreFrom(b, qs, as, 1,
              [total |-> 0, byIP |-> EmptyMap,
               byLevel |-> [a |-> 0, b |-> 0, c |-> 0, s |-> 0]])

----------------------------------------------------------------------------
(* Session handlers of App *)

\* startDisabled without the test of the phase
startDisabled_IgnoresPhase(b, ph) == Len(b) = 0

\* the start button is rendered disabled
startDisabled(b, ph) == Len(b) = 0 \/ ph # "pick"

\* startQuiz without setPhase("running")
startQuiz_NoSetPhase(b, ph, t) ==
    IF Len(b) = 0 THEN [phase |-> ph, tab |-> t, alert |-> AlertEmptyBasket]
    ELSE [phase |-> ph, tab |-> "quiz", alert |-> ""]

\* startQuiz(): the new phase and tab and the alert raised
startQuiz(b, ph, t) ==
    IF Len(b) = 0 THEN [phase |-> ph, tab |-> t, alert |-> AlertEmptyBasket]
    ELSE [phase |-> "running", tab |-> "quiz", alert |-> ""]

\* the reset button is rendered
resetShown(ph) == ph # "pick"

\* resetAll without setPhase("pick")
resetAll_KeepsPhase ==
    [basket |-> <<>>, phase |-> phase, answers |-> EmptyMap,
     tab |-> "welcome", selectedIP |-> ""]

\* resetAll without setAnswers({})
resetAll_KeepsAnswers ==
    [basket |-> <<>>, phase |-> "pick", answers |-> answers,
     tab |-> "welcome", selectedIP |-> ""]

\* resetAll(): the values it sets
resetAll ==
    [basket |-> <<>>, phase |-> "pick", answers |-> EmptyMap,
     tab |-> "welcome", selectedIP |-> ""]

\* the reveal button is rendered
revealShown(ph) == ph = "running"

\* revealReferences(): the phase it sets
revealReferences == "confirm"

\* the finish button is rendered
finishShown(ph) == ph = "confirm"

\* finishAndShowScore(): the phase it sets
finishAndShowScore == "finished"

\* JSON.stringify of an array, as the text kept in a storage item or sent
\* in a request body; JSON.parse gives the array back from such a text
JSONstringify(arr) == [kind |-> "array", items |-> arr]

\* JSON.stringify of a plain object
JSONstringifyObject(obj) == [kind |-> "object", fields |-> obj]

\* saveQuestions with the write left out
saveQuestions_NoWrite(item, arr) == item

\* saveQuestions(arr): the item ipquiz.questions.v2 after the call
saveQuestions(item, arr) == JSONstringify(arr)

\* saveHints(obj): the item ipquiz.hints.v2 after the call
saveHints(item, obj) == JSONstringifyObject(obj)

\* useEffect(() => saveQuestions(questions), [questions]): run after a render
\* in which the collection changed
QuestionsEffect(old, new, item) ==
    IF new # old THEN saveQuestions(item, new) ELSE item

\* useEffect(() => saveHints(hints), [hints])
HintsEffect(old, new, item) ==
    IF new # old THEN saveHints(item, new) ELSE item

----------------------------------------------------------------------------
(* dataSource.js: values, texts and the functions of the module *)

\* JavaScript values the module handles: null, an array, another object
Null == [type |-> "null", value |-> <<>>]
Array(a) == [type |-> "array", value |-> a]
Object == [type |-> "object", value |-> <<>>]

\* if (v): null is falsy, every array (the empty one too) and object truthy
Truthy(v) == v.type # "null"

\* Array.isArray(v) && v.length > 0
NonEmptyArray(v) == v.type = "array" /\ Len(v.value) > 0

\* a text that is not JSON, and localStorage.getItem() of a missing key
Corrupt == [kind |-> "corrupt", items |-> <<>>]
NoItem == [kind |-> "absent", items |-> <<>>]

\* JSON.stringify(v) of a value
JSONstringifyValue(v) == [kind |-> v.type, items |-> v.value]

\* JSON.parse(text): whether it returns, and the value
JSONparse(text) ==
    [ok |-> text.kind \in {"array", "null", "object"},
     value |-> IF text.kind = "array" THEN Array(text.items)
               ELSE IF text.kind = "object" THEN Object
               ELSE Null]

\* localStorage.setItem(key, text), which throws when the quota is used up
setItem(st, key, text, accepted) ==
    IF accepted THEN [st EXCEPT ![key] = text] ELSE st

\* the two localStorage keys of dataSource.js, both missing
EmptyStore == [questions |-> NoItem, old |-> NoItem]

\* import defaultQuestions from "./questions.json"
defaultQuestions == <<ManualQuestion(9, "D", "short", "a")>>

\* the record of a settled call
Ret(fn, value, read, resolved) ==
    [fn |-> fn, value |-> value, read |-> read, resolved |-> resolved]

\* getQuestions(), development, lines 28-69: the look into localStorage.
\* hit: a stored non-empty array was found and is the result; store: the items
\* afterwards (an item holding an empty array or no array is removed, the old
\* key is copied to the new one when it is the one used)
getQuestionsStored(st, accepted) ==
    LET localData == st.questions
        parsedNew == JSONparse(localData)
        st1 == IF localData.kind # "absent" /\ parsedNew.ok
                  /\ ~NonEmptyArray(parsedNew.value)
               THEN [st EXCEPT !.questions = NoItem]
               ELSE st
        oldData == st1.old
        parsedOld == JSONparse(oldData)
        st2 == IF oldData.kind # "absent" /\ parsedOld.ok
                  /\ ~NonEmptyArray(parsedOld.value)
               THEN [st1 EXCEPT !.old = NoItem]
               ELSE st1
    IN  IF localData.kind # "absent" /\ parsedNew.ok
           /\ NonEmptyArray(parsedNew.value)
        THEN [hit |-> TRUE, value |-> parsedNew.value, store |-> st]
        ELSE IF oldData.kind # "absent" /\ parsedOld.ok
                /\ NonEmptyArray(parsedOld.value)
        THEN [hit |-> TRUE, value |-> parsedOld.value,
              store |-> setItem(st1, "questions",
                                JSONstringifyValue(parsedOld.value), accepted)]
        ELSE [hit |-> FALSE, value |-> Null, store |-> st2]

\* getQuestions(), development, lines 72-99: after fetch("/questions.json")
\* settled with resp; the bundled questions when it brought no JSON
getQuestionsPublic(st, resp, a1, a2) ==
    LET parsed == JSONparse(resp.body)
        data == IF resp.status = "ok" /\ parsed.ok
                THEN parsed.value
                ELSE Array(defaultQuestions)
        text == JSONstringifyValue(data)
    IN  [value |-> data,
         store |-> setItem(setItem(st, "questions", text, a1), "old", text, a2)]

\* getQuestions(), production, with every failure resolving to the response
\* body's value
getQuestionsApi_NoCatch(resp) == JSONparse(resp.body).value

\* getQuestions(), production, lines 103-123: after fetch("/api/questions")
\* settled with resp
getQuestionsApi(resp) ==
    IF resp.status # "ok" THEN Array(<<>>)
    ELSE IF ~JSONparse(resp.body).ok THEN Array(<<>>)
    ELSE JSONparse(resp.body).value

\* saveQuestions(), development, with the writes left out
saveQuestionsDev_CacheOnly(st, newQuestions, a1, a2) == st

\* saveQuestions(newQuestions), development, lines 133-138: the items after
\* the two writes
saveQuestionsDev(st, newQuestions, a1, a2) ==
    setItem(setItem(st, "questions", JSONstringify(newQuestions), a1),
            "old", JSONstringify(newQuestions), a2)

\* getAdminPin with the stored item ignored
getAdminPin_AlwaysDefault(stored) == DefaultPin

\* getAdminPin()
getAdminPin(stored) == IF stored = "" THEN DefaultPin ELSE stored

----------------------------------------------------------------------------
(* Answer recording: QuizArea.setAnswer, MCQBlock, ManualBlock *)

\* setAnswer storing the payload as the whole record: [qid]: data
setAnswer_Replace(as, qid, data) == (qid :> data) @@ as

\* setAnswer(qid, data): {...prev, [qid]: {...(prev[qid] || {}), ...data}}
setAnswer(as, qid, data) == (qid :> Merge(Get(as, qid, EmptyMap), data)) @@ as

\* showReference={phase === "confirm" || phase === "finished"}
showReference(ph) == ph = "confirm" \/ ph = "finished"

\* answerShown with the blocks rendered in every phase
answerShown_Always(ph) == TRUE

\* MCQBlock and ManualBlock are rendered on a question card
answerShown(ph) == ph # "pick"

\* MCQBlock.toggleChoice(idx): the new answer map
toggleChoice(as, q, idx, ph) ==
    IF showReference(ph) THEN as
    ELSE LET chosenIndices == Get(Get(as, q.id, EmptyMap), "chosenIndices", <<>>)
             newChosenIndices ==
                 IF Get(q, "isMultiChoice", FALSE)
                 THEN IF Includes(chosenIndices, idx)
                      THEN Without(chosenIndices, idx)
                      ELSE Append(chosenIndices, idx)
                 ELSE <<idx>>
         IN setAnswer(as, q.id, [chosenIndices |-> newChosenIndices])

\* ManualBlock: canGrade = adminMode && !showReference
canGrade(admin, ph) == admin /\ ~showReference(ph)

\* ManualBlock: the score buttons 0..maxPoints
choices(q) == 0..LEVEL_POINTS[q.level]

\* ManualBlock score button p: the new answer map
setManualScore(as, q, p, admin, ph) ==
    IF ~canGrade(admin, ph) THEN as
    ELSE setAnswer(as, q.id, [manualScore |-> p])

----------------------------------------------------------------------------
(* The banks the application is started with *)

\* two questions of ip X and one of ip Y
InitialBank ==
    << McqQuestion(1, "X", "b", <<"A", "B">>, <<1>>, FALSE),
       ManualQuestion(2, "X", "fill", "c"),
       ManualQuestion(3, "Y", "short", "a") >>

\* seven manually graded questions in three ips, enough to reach both caps
PickBank ==
    << ManualQuestion(1, "X", "short", "c"),
       ManualQuestion(2, "X", "short", "c"),
       ManualQuestion(3, "X", "short", "c"),
       ManualQuestion(4, "Y", "short", "c"),
       ManualQuestion(5, "Y", "short", "c"),
       ManualQuestion(6, "Z", "short", "c"),
       ManualQuestion(7, "Z", "short", "c") >>

\* one multiple-choice and one manually graded question
AnswerBank ==
    << McqQuestion(1, "X", "b", <<"A", "B">>, <<1>>, FALSE),
       ManualQuestion(2, "Y", "short", "a") >>

\* the bank of the end-to-end scenario: q1 multiple choice of ip X, q2 short
\* answer of ip Y, and two more multiple-choice questions of ip X
ScenarioBank ==
    << McqQuestion(1, "X", "b", <<"A", "B">>, <<1>>, FALSE),
       ManualQuestion(2, "Y", "short", "a"),
       McqQuestion(3, "X", "b", <<"A", "B">>, <<1>>, FALSE),
       McqQuestion(4, "X", "b", <<"A", "B">>, <<1>>, FALSE) >>

\* the PINs typed into the login field
PinInputs == {"1234", "0000"}

\* a call of a handler with an id and a payload
OpWith(name, arg, data) == [op |-> name, arg |-> arg, data |-> data]

\* a call of a handler with an id, or with 0 for none
Op(name, arg) == OpWith(name, arg, EmptyMap)

\* dataSource.js as it is when nothing has used it
DsIdle ==
    /\ cache = Null
    /\ store = EmptyStore
    /\ api = JSONstringify(<<>>)
    /\ calls = <<>>
    /\ isDev = TRUE
    /\ ret = Ret("load", Null, FALSE, FALSE)

InitApp(bank) ==
    /\ tab = "welcome"
    /\ questions = bank
    /\ hints = EmptyMap
    /\ selectedIP = ""
    /\ basket = <<>>
    /\ phase = "pick"
    /\ answers = EmptyMap
    /\ adminMode = FALSE
    /\ lsPin = ""
    /\ alertMsg = ""
    /\ lastOp = Op("init", 0)
    /\ nextId = Len(bank) + 1
    /\ adminOps = 0
    /\ lsQuestions = saveQuestions(JSONstringify(<<>>), bank)
    /\ lsHints = saveHints(JSONstringifyObject(EmptyMap), EmptyMap)

\* the App of tailwind.config.js, which does not import dataSource.js
InitWith(bank) == InitApp(bank) /\ DsIdle

Init == InitWith(InitialBank)

InitPick == InitWith(PickBank)

----------------------------------------------------------------------------
(* Actions: one per control of the page *)

\* header buttons: setTab
SetTab(t) ==
    /\ tab' = t
    /\ alertMsg' = ""
    /\ lastOp' = Op("other", 0)
    /\ UNCHANGED <<questions, hints, selectedIP, basket, phase, answers,
                   adminMode, lsPin, nextId, adminOps>>
    /\ UNCHANGED lsVars
    /\ UNCHANGED dsVars

\* sidebar ip buttons: setSelectedIP
SetSelectedIP(ip) ==
    /\ ip \in ips(questions, hints)
    /\ selectedIP' = ip
    /\ alertMsg' = ""
    /\ lastOp' = Op("other", 0)
    /\ UNCHANGED <<tab, questions, hints, basket, phase, answers,
                   adminMode, lsPin, nextId, adminOps>>
    /\ UNCHANGED lsVars
    /\ UNCHANGED dsVars

\* the toggle button of a question card, rendered while picking
ToggleBasket(id) ==
    /\ tab = "quiz"
    /\ phase = "pick"
    /\ id \in visibleQuestions(questions, selectedIP, basket, phase)
    /\ LET r == toggleBasket(basket, questions, phase, id)
       IN /\ basket' = r.basket
          /\ alertMsg' = r.alert
    /\ lastOp' = Op("toggleBasket", id)
    /\ UNCHANGED <<tab, questions, hints, selectedIP, phase, answers,
                   adminMode, lsPin, nextId, adminOps>>
    /\ UNCHANGED lsVars
    /\ UNCHANGED dsVars

\* toggleBasket(id) called as a function, whatever is rendered: in any
\* phase, on any tab, for an id that need not be in the bank
CallToggleBasket(id) ==
    /\ LET r == toggleBasket(basket, questions, phase, id)
       IN /\ basket' = r.basket
          /\ alertMsg' = r.alert
    /\ lastOp' = Op("toggleBasket", id)
    /\ UNCHANGED <<tab, questions, hints, selectedIP, phase, answers,
                   adminMode, lsPin, nextId, adminOps>>
    /\ UNCHANGED lsVars
    /\ UNCHANGED dsVars

\* a click on the start button: nothing happens while it is disabled
StartQuiz ==
    /\ IF startDisabled(basket, phase)
       THEN /\ alertMsg' = ""
            /\ UNCHANGED <<phase, tab>>
       ELSE LET r == startQuiz(basket, phase, tab)
            IN /\ phase' = r.phase
               /\ tab' = r.tab
               /\ alertMsg' = r.alert
    /\ lastOp' = Op("startQuiz", 0)
    /\ UNCHANGED <<questions, hints, selectedIP, basket, answers,
                   adminMode, lsPin, nextId, adminOps>>
    /\ UNCHANGED lsVars
    /\ UNCHANGED dsVars

\* the reset button
ResetAll ==
    /\ resetShown(phase)
    /\ basket' = resetAll.basket
    /\ phase' = resetAll.phase
    /\ answers' = resetAll.answers
    /\ tab' = resetAll.tab
    /\ selectedIP' = resetAll.selectedIP
    /\ alertMsg' = ""
    /\ lastOp' = Op("resetAll", 0)
    /\ UNCHANGED <<questions, hints, adminMode, lsPin, nextId, adminOps>>
    /\ UNCHANGED lsVars
    /\ UNCHANGED dsVars

\* the reveal button
RevealReferences ==
    /\ revealShown(phase)
    /\ phase' = revealReferences
    /\ alertMsg' = ""
    /\ lastOp' = Op("revealReferences", 0)
    /\ UNCHANGED <<tab, questions, hints, selectedIP, basket, answers,
                   adminMode, lsPin, nextId, adminOps>>
    /\ UNCHANGED lsVars
    /\ UNCHANGED dsVars

\* the finish button
FinishAndShowScore ==
    /\ finishShown(phase)
    /\ phase' = finishAndShowScore
    /\ alertMsg' = ""
    /\ lastOp' = Op("finishAndShowScore", 0)
    /\ UNCHANGED <<tab, questions, hints, selectedIP, basket, answers,
                   adminMode, lsPin, nextId, adminOps>>
    /\ UNCHANGED lsVars
    /\ UNCHANGED dsVars

\* the login card: type a PIN and unlock (tryAdmin)
TryAdmin(pinInput) ==
    /\ tab = "admin"
    /\ ~adminMode
    /\ IF pinInput = getAdminPin(lsPin)
       THEN /\ adminMode' = TRUE
            /\ tab' = "admin"
            /\ alertMsg' = ""
       ELSE /\ alertMsg' = AlertBadPin
            /\ UNCHANGED <<adminMode, tab>>
    /\ lastOp' = Op("other", 0)
    /\ UNCHANGED <<questions, hints, selectedIP, basket, phase, answers,
                   lsPin, nextId, adminOps>>
    /\ UNCHANGED lsVars
    /\ UNCHANGED dsVars

\* header button shown in admin mode: setAdminMode(false)
ExitAdmin ==
    /\ adminMode
    /\ adminMode' = FALSE
    /\ alertMsg' = ""
    /\ lastOp' = Op("other", 0)
    /\ UNCHANGED <<tab, questions, hints, selectedIP, basket, phase, answers,
                   lsPin, nextId, adminOps>>
    /\ UNCHANGED lsVars
    /\ UNCHANGED dsVars

\* a click on option idx of a multiple-choice card (MCQBlock)
ToggleChoice(id, idx) ==
    /\ tab = "quiz"
    /\ answerShown(phase)
    /\ id \in visibleQuestions(questions, selectedIP, basket, phase)
    /\ LET q == find(questions, id)
       IN /\ q.type = "mcq"
          /\ idx \in 0..(Len(Get(q, "options", <<>>)) - 1)
          /\ answers' = toggleChoice(answers, q, idx, phase)
    /\ alertMsg' = ""
    /\ lastOp' = Op("other", 0)
    /\ UNCHANGED <<tab, questions, hints, selectedIP, basket, phase,
                   adminMode, lsPin, nextId, adminOps>>
    /\ UNCHANGED lsVars
    /\ UNCHANGED dsVars

\* a click on score button p of a manually graded card (ManualBlock)
SetManualScore(id, p) ==
    /\ tab = "quiz"
    /\ answerShown(phase)
    /\ adminMode
    /\ id \in visibleQuestions(questions, selectedIP, basket, phase)
    /\ LET q == find(questions, id)
       IN /\ q.type # "mcq"
          /\ p \in choices(q)
          /\ answers' = setManualScore(answers, q, p, adminMode, phase)
    /\ alertMsg' = ""
    /\ lastOp' = Op("other", 0)
    /\ UNCHANGED <<tab, questions, hints, selectedIP, basket, phase,
                   adminMode, lsPin, nextId, adminOps>>
    /\ UNCHANGED lsVars
    /\ UNCHANGED dsVars

\* setAnswer returning without a write once the references are shown
CallSetAnswer_FrozenAfterReveal(qid, data) ==
    /\ answers' = IF showReference(phase) THEN answers
                  ELSE setAnswer(answers, qid, data)
    /\ alertMsg' = ""
    /\ lastOp' = OpWith("setAnswer", qid, data)
    /\ UNCHANGED <<tab, questions, hints, selectedIP, basket, phase,
                   adminMode, lsPin, nextId, adminOps>>
    /\ UNCHANGED lsVars
    /\ UNCHANGED dsVars

\* setAnswer(qid, data) called as a function, whatever is rendered: in any
\* phase, for any id, with a payload of either kind
CallSetAnswer(qid, data) ==
    /\ answers' = setAnswer(answers, qid, data)
    /\ alertMsg' = ""
    /\ lastOp' = OpWith("setAnswer", qid, data)
    /\ UNCHANGED <<tab, questions, hints, selectedIP, basket, phase,
                   adminMode, lsPin, nextId, adminOps>>
    /\ UNCHANGED lsVars
    /\ UNCHANGED dsVars

----------------------------------------------------------------------------
(* AdminArea: the question form, saveQuestion and deleteQuestion *)

\* the filteredQuestions memo of AdminArea, as the set of ids listed
filteredQuestions(qs, sel) ==
    {qs[i].id : i \in {j \in 1..Len(qs) : sel = "" \/ qs[j].ip = sel}}

\* payload.options.filter(o => o.trim() !== "")
RECURSIVE NonBlank(_)
NonBlank(s) ==
    IF s = <<>> THEN <<>>
    ELSE IF Head(s) = "" THEN NonBlank(Tail(s))
    ELSE <<Head(s)>> \o NonBlank(Tail(s))

\* the update and the create branch of saveQuestion; id 0 stands for id: ""
storeQuestion(qs, payload, newId) ==
    IF payload.id # 0
    THEN [i \in 1..Len(qs) |-> IF qs[i].id = payload.id THEN payload ELSE qs[i]]
    ELSE <<[payload EXCEPT !.id = newId]>> \o qs

\* saveQuestion(): the new bank and the alert raised; the test
\* options.some((o) => !o) is left out, no option being empty after the filter
saveQuestion(qs, form, newId) ==
    IF form.ip = "" \/ form.title = ""
    THEN [questions |-> qs, alert |-> AlertNeedIPTitle]
    ELSE IF form.type = "mcq"
    THEN LET options == NonBlank(form.options)
         IN IF Len(options) < 2
            THEN [questions |-> qs, alert |-> AlertTwoOptions]
            ELSE IF Len(form.correctIndices) = 0
            THEN [questions |-> qs, alert |-> AlertOneCorrect]
            ELSE LET correctIndices ==
                         SelectSeq(form.correctIndices,
                                   LAMBDA idx : idx >= 0 /\ idx < Len(options))
                     payload ==
                         [id |-> form.id, ip |-> form.ip, type |-> form.type,
                          level |-> form.level, title |-> form.title,
                          options |-> options,
                          correctIndices |-> correctIndices,
                          isMultiChoice |-> form.isMultiChoice]
                 IN [questions |-> storeQuestion(qs, payload, newId), alert |-> ""]
    ELSE LET payload ==
                 [id |-> form.id, ip |-> form.ip, type |-> form.type,
                  level |-> form.level, title |-> form.title]
         IN [questions |-> storeQuestion(qs, payload, newId), alert |-> ""]

\* deleteQuestion(id) after window.confirm returned true
deleteQuestion(qs, id) == SelectSeq(qs, LAMBDA q : q.id # id)

\* the form as setForm(q) fills it; a question without the multiple-choice
\* fields gets the blank ones the type selector creates
FormOf(q) ==
    [id |-> q.id, ip |-> q.ip, type |-> q.type, level |-> q.level,
     title |-> q.title,
     options |-> Get(q, "options", <<"", "", "", "">>),
     correctIndices |-> Get(q, "correctIndices", <<>>),
     isMultiChoice |-> Get(q, "isMultiChoice", FALSE)]

\* the ips in the order Array.sort() gives them
IpOrder == <<"X", "Y", "Z">>

\* ips[0]
FirstIp(allIps) ==
    IpOrder[CHOOSE i \in 1..Len(IpOrder) :
               IpOrder[i] \in allIps /\ \A j \in 1..(i - 1) : IpOrder[j] \notin allIps]

\* the form as resetForm() fills it, with a title typed in
NewForm(sel, allIps) ==
    [id |-> 0,
     ip |-> IF sel # "" THEN sel
            ELSE IF allIps # {} THEN FirstIp(allIps) ELSE "",
     type |-> "mcq", level |-> "b", title |-> "t",
     options |-> <<"", "", "", "">>, correctIndices |-> <<>>,
     isMultiChoice |-> FALSE]

\* what the administrator enters in the four option fields and marks correct
WellFormedFill ==
    [options |-> <<"A", "B", "", "">>, correctIndices |-> <<1>>, isMultiChoice |-> FALSE]

McqFills ==
    { WellFormedFill,
      [options |-> <<"A", "B", "", "">>, correctIndices |-> <<0, 1>>, isMultiChoice |-> TRUE],
      [options |-> <<"A", "B", "", "">>, correctIndices |-> <<3>>, isMultiChoice |-> FALSE],
      [options |-> <<"", "B", "C", "">>, correctIndices |-> <<1>>, isMultiChoice |-> FALSE],
      [options |-> <<"A", "", "", "">>, correctIndices |-> <<0>>, isMultiChoice |-> FALSE],
      [options |-> <<"A", "B", "", "">>, correctIndices |-> <<>>, isMultiChoice |-> FALSE] }

\* the types and levels the administrator selects in the form
FormTypes == {"mcq", "short"}
FormLevels == {"c"}

\* the forms one visit of the editor can end with: the opened form with one
\* field changed
FormEdits(f, allIps) ==
    {f}
    \cup {[f EXCEPT !.ip = ip] : ip \in allIps \cup {""}}
    \cup {[f EXCEPT !.level = l] : l \in FormLevels}
    \cup {[f EXCEPT !.type = t] : t \in FormTypes}
    \cup {[f EXCEPT !.title = ""]}
    \cup {[f EXCEPT !.options = m.options,
                    !.correctIndices = m.correctIndices,
                    !.isMultiChoice = m.isMultiChoice] : m \in McqFills}

FormChoices(qs, sel, hs) ==
    UNION {FormEdits(FormOf(find(qs, id)), ips(qs, hs)) :
              id \in filteredQuestions(qs, sel)}
    \cup {NewForm(sel, ips(qs, hs)),
          [NewForm(sel, ips(qs, hs)) EXCEPT
              !.options = WellFormedFill.options,
              !.correctIndices = WellFormedFill.correctIndices]}

\* the save button of the question form
SaveQuestion(form) ==
    /\ tab = "admin"
    /\ adminMode
    /\ adminOps < MaxAdminOps
    /\ LET r == saveQuestion(questions, form, nextId)
       IN /\ questions' = r.questions
          /\ alertMsg' = r.alert
          /\ nextId' = IF r.alert = "" /\ form.id = 0 THEN nextId + 1 ELSE nextId
          /\ adminOps' = IF r.questions # questions THEN adminOps + 1 ELSE adminOps
    /\ lastOp' = Op("other", 0)
    /\ UNCHANGED <<tab, hints, selectedIP, basket, phase, answers,
                   adminMode, lsPin>>
    /\ lsQuestions' = QuestionsEffect(questions, questions', lsQuestions)
    /\ UNCHANGED lsHints
    /\ UNCHANGED dsVars

\* the delete button of a listed question, with the answer to window.confirm
DeleteQuestion(id, confirmed) ==
    /\ tab = "admin"
    /\ adminMode
    /\ adminOps < MaxAdminOps
    /\ id \in filteredQuestions(questions, selectedIP)
    /\ IF confirmed
       THEN /\ questions' = deleteQuestion(questions, id)
            /\ adminOps' = adminOps + 1
       ELSE UNCHANGED <<questions, adminOps>>
    /\ alertMsg' = ""
    /\ lastOp' = Op("other", 0)
    /\ UNCHANGED <<tab, hints, selectedIP, basket, phase, answers,
                   adminMode, lsPin, nextId>>
    /\ lsQuestions' = QuestionsEffect(questions, questions', lsQuestions)
    /\ UNCHANGED lsHints
    /\ UNCHANGED dsVars

\* changeAdminPin(): the new stored PIN and the alert raised
changeAdminPin(stored, newPin) ==
    IF newPin = "" THEN [pin |-> stored, alert |-> AlertPinEmpty]
    ELSE IF Len(newPin) < MinPinLen THEN [pin |-> stored, alert |-> AlertPinShort]
    ELSE [pin |-> newPin, alert |-> AlertPinUpdated]

\* the PIN card of AdminArea: type a new PIN and update
ChangeAdminPin(newPin) ==
    /\ tab = "admin"
    /\ adminMode
    /\ LET r == changeAdminPin(lsPin, newPin)
       IN /\ lsPin' = r.pin
          /\ alertMsg' = r.alert
    /\ lastOp' = Op("other", 0)
    /\ UNCHANGED <<tab, questions, hints, selectedIP, basket, phase, answers,
                   adminMode, nextId, adminOps>>
    /\ UNCHANGED lsVars
    /\ UNCHANGED dsVars

\* saveSpecialHint(): the hint map and the alert raised
saveSpecialHint(hs, sel, specialHint) ==
    IF sel = "" THEN [hints |-> hs, alert |-> AlertPickIPForHint]
    ELSE [hints |-> (sel :> specialHint) @@ hs, alert |-> AlertHintSaved]

\* the hint card of AdminArea: type a hint and save (disabled without an ip)
SaveSpecialHint(specialHint) ==
    /\ tab = "admin"
    /\ adminMode
    /\ selectedIP # ""
    /\ LET r == saveSpecialHint(hints, selectedIP, specialHint)
       IN /\ hints' = r.hints
          /\ alertMsg' = r.alert
    /\ lastOp' = Op("other", 0)
    /\ lsHints' = HintsEffect(hints, hints', lsHints)
    /\ UNCHANGED <<tab, questions, selectedIP, basket, phase, answers,
                   adminMode, lsPin, nextId, adminOps, lsQuestions>>
    /\ UNCHANGED dsVars

\* addNewIp(): the hint map and the alert raised, for the trimmed name
addNewIp(qs, hs, name) ==
    IF name = "" THEN [hints |-> hs, alert |-> AlertIpEmpty]
    ELSE IF (\E i \in 1..Len(qs) : qs[i].ip = name) \/ name \in DOMAIN hs
         THEN [hints |-> hs, alert |-> AlertIpExists]
         ELSE [hints |-> (name :> "") @@ hs, alert |-> AlertIpAdded]

\* the ip card of AdminArea: type a name and add
AddNewIp(name) ==
    /\ tab = "admin"
    /\ adminMode
    /\ LET r == addNewIp(questions, hints, name)
       IN /\ hints' = r.hints
          /\ alertMsg' = r.alert
    /\ lastOp' = Op("other", 0)
    /\ lsHints' = HintsEffect(hints, hints', lsHints)
    /\ UNCHANGED <<tab, questions, selectedIP, basket, phase, answers,
                   adminMode, lsPin, nextId, adminOps, lsQuestions>>
    /\ UNCHANGED dsVars

----------------------------------------------------------------------------
(* Actions of dataSource.js: its exported functions and the requests *)

\* array.filter((_, k) => k !== i)
RemoveAt(seq, i) == [k \in 1..(Len(seq) - 1) |-> IF k < i THEN seq[k] ELSE seq[k + 1]]

\* a request under way
Call(fn, body) == [fn |-> fn, body |-> body]

\* a call of getQuestions() up to its first await, or to its return when it
\* needs no fetch
GetQuestions(accepted) ==
    /\ Len(calls) < MaxCalls
    /\ IF Truthy(cache)
       THEN /\ ret' = Ret("getQuestions", cache, FALSE, TRUE)
            /\ UNCHANGED <<cache, store, calls>>
       ELSE IF isDev
       THEN LET r == getQuestionsStored(store, accepted)
            IN  /\ store' = r.store
                /\ IF r.hit
                   THEN /\ cache' = r.value
                        /\ ret' = Ret("getQuestions", r.value, TRUE, TRUE)
                        /\ UNCHANGED calls
                   ELSE /\ calls' = Append(calls, Call("fetchPublic", NoItem))
                        /\ UNCHANGED <<cache, ret>>
       ELSE /\ calls' = Append(calls, Call("fetchApi", NoItem))
            /\ UNCHANGED <<cache, store, ret>>
    /\ UNCHANGED <<api, isDev>>
    /\ UNCHANGED <<tab, questions, hints, selectedIP, basket, phase, answers,
                   adminMode, lsPin, alertMsg, lastOp, nextId, adminOps>>
    /\ UNCHANGED lsVars

\* fetch("/questions.json") settles and getQuestions() runs to its return
PublicResolves(i, resp, a1, a2) ==
    /\ i \in 1..Len(calls)
    /\ calls[i].fn = "fetchPublic"
    /\ LET r == getQuestionsPublic(store, resp, a1, a2)
       IN  /\ store' = r.store
           /\ cache' = r.value
           /\ ret' = Ret("getQuestions", r.value, TRUE, TRUE)
    /\ calls' = RemoveAt(calls, i)
    /\ UNCHANGED <<api, isDev>>
    /\ UNCHANGED <<tab, questions, hints, selectedIP, basket, phase, answers,
                   adminMode, lsPin, alertMsg, lastOp, nextId, adminOps>>
    /\ UNCHANGED lsVars

\* fetch("/api/questions") settles and getQuestions() runs to its return;
\* a response that arrives whole carries the stored bank
ApiResolves(i, status, garbled) ==
    /\ i \in 1..Len(calls)
    /\ calls[i].fn = "fetchApi"
    /\ LET resp == [status |-> status,
                    body |-> IF garbled THEN Corrupt ELSE api]
           data == getQuestionsApi(resp)
       IN  /\ cache' = data
           /\ ret' = Ret("getQuestions", data, TRUE, TRUE)
    /\ calls' = RemoveAt(calls, i)
    /\ UNCHANGED <<store, api, isDev>>
    /\ UNCHANGED <<tab, questions, hints, selectedIP, basket, phase, answers,
                   adminMode, lsPin, alertMsg, lastOp, nextId, adminOps>>
    /\ UNCHANGED lsVars

\* a call of saveQuestions(newQuestions): the cache, then the two items or
\* the POST
SaveQuestions(newQuestions, a1, a2) ==
    /\ cache' = Array(newQuestions)
    /\ IF isDev
       THEN /\ store' = saveQuestionsDev(store, newQuestions, a1, a2)
            /\ UNCHANGED calls
       ELSE /\ Len(calls) < MaxCalls
            /\ calls' = Append(calls, Call("post", JSONstringify(newQuestions)))
            /\ UNCHANGED store
    /\ ret' = Ret("saveQuestions", Array(newQuestions), FALSE, ret.resolved)
    /\ UNCHANGED <<api, isDev>>
    /\ UNCHANGED <<tab, questions, hints, selectedIP, basket, phase, answers,
                   adminMode, lsPin, alertMsg, lastOp, nextId, adminOps>>
    /\ UNCHANGED lsVars

\* a POST reaches /api/questions, which stores its body, or is lost
PostArrives(i, delivered) ==
    /\ i \in 1..Len(calls)
    /\ calls[i].fn = "post"
    /\ api' = IF delivered THEN calls[i].body ELSE api
    /\ calls' = RemoveAt(calls, i)
    /\ UNCHANGED <<cache, store, isDev, ret>>
    /\ UNCHANGED <<tab, questions, hints, selectedIP, basket, phase, answers,
                   adminMode, lsPin, alertMsg, lastOp, nextId, adminOps>>
    /\ UNCHANGED lsVars

\* the page is loaded again: the module starts over, the storage and the
\* server stay, the requests already sent still arrive
Reload ==
    /\ cache' = Null
    /\ calls' = SelectSeq(calls, LAMBDA c : c.fn = "post")
    /\ ret' = Ret("load", Null, FALSE, FALSE)
    /\ UNCHANGED <<store, api, isDev>>
    /\ UNCHANGED <<tab, questions, hints, selectedIP, basket, phase, answers,
                   adminMode, lsPin, alertMsg, lastOp, nextId, adminOps>>
    /\ UNCHANGED lsVars

----------------------------------------------------------------------------
(* The App of part_000 that imports dataSource.js, in the production build. *)
(* Its hint effects (saveHints, removeItem) do not touch the questions and  *)
(* are left out.                                                            *)

\* the effects of the first render, in the order they are declared:
\* fetchQuestions() runs getQuestions() up to its fetch, then
\* saveQuestions(questions) runs with the initial state []
AppMount ==
    /\ ~isDev
    /\ lastOp.op = "init"
    /\ Len(calls) < MaxCalls
    /\ questions = <<>>
    /\ cache' = Array(questions)
    /\ calls' = calls \o <<Call("fetchApi", NoItem),
                           Call("post", JSONstringify(questions))>>
    /\ ret' = Ret("saveQuestions", Array(questions), FALSE, ret.resolved)
    /\ lastOp' = OpWith("mount", 0, lastOp.data)
    /\ UNCHANGED <<store, api, isDev>>
    /\ UNCHANGED <<tab, questions, hints, selectedIP, basket, phase, answers,
                   adminMode, lsPin, alertMsg, nextId, adminOps>>
    /\ UNCHANGED lsVars

\* the fetch of getQuestions() settles, setQuestions(data) renders with a new
\* array and the save effect runs again with it
AppFetched(i, status, garbled) ==
    /\ ~isDev
    /\ lastOp.op = "mount"
    /\ i \in 1..Len(calls)
    /\ calls[i].fn = "fetchApi"
    /\ LET resp == [status |-> status,
                    body |-> IF garbled THEN Corrupt ELSE api]
           data == getQuestionsApi(resp)
       IN  /\ data.type = "array"
           /\ questions' = data.value
           /\ cache' = data
           /\ calls' = Append(RemoveAt(calls, i),
                              Call("post", JSONstringify(data.value)))
           /\ ret' = Ret("saveQuestions", data, FALSE, TRUE)
    /\ lastOp' = OpWith("loaded", 0, lastOp.data)
    /\ UNCHANGED <<store, api, isDev>>
    /\ UNCHANGED <<tab, hints, selectedIP, basket, phase, answers,
                   adminMode, lsPin, alertMsg, nextId, adminOps>>
    /\ UNCHANGED lsVars

\* the page is opened again: a new App with questions = [], a new module,
\* the server and the requests already sent stay
AppReload ==
    /\ ~isDev
    /\ lastOp.op # "init"
    /\ questions' = <<>>
    /\ cache' = Null
    /\ calls' = SelectSeq(calls, LAMBDA c : c.fn = "post")
    /\ ret' = Ret("load", Null, FALSE, FALSE)
    /\ lastOp' = OpWith("init", 0, [bank |-> api])
    /\ UNCHANGED <<store, api, isDev>>
    /\ UNCHANGED <<tab, hints, selectedIP, basket, phase, answers,
                   adminMode, lsPin, alertMsg, nextId, adminOps>>
    /\ UNCHANGED lsVars

----------------------------------------------------------------------------
(* Specifications *)

Next ==
    \/ \E t \in Tabs : SetTab(t)
    \/ \E id \in BankIds(questions) : ToggleBasket(id)
    \/ StartQuiz
    \/ ResetAll
    \/ RevealReferences
    \/ FinishAndShowScore
    \/ \E p \in PinInputs : TryAdmin(p)
    \/ ExitAdmin
    \/ \E id \in BankIds(questions), idx \in 0..3 : ToggleChoice(id, idx)
    \/ \E id \in BankIds(questions), p \in 0..5 : SetManualScore(id, p)
    \/ \E form \in FormChoices(questions, selectedIP, hints) : SaveQuestion(form)
    \/ \E id \in BankIds(questions), ok \in BOOLEAN : DeleteQuestion(id, ok)

\* the whole application, started with InitialBank
Spec == Init /\ [][Next]_vars

NextPick ==
    \/ SetTab("quiz")
    \/ \E ip \in ips(questions, hints) : SetSelectedIP(ip)
    \/ \E id \in BankIds(questions) : ToggleBasket(id)

\* picking only, started with PickBank
SpecPick == InitPick /\ [][NextPick]_vars

\* the ids toggleBasket is called with: those of the bank and one that no
\* question has
CallIds == BankIds(questions) \cup {nextId}

NextToggle ==
    \/ \E id \in CallIds : CallToggleBasket(id)
    \/ StartQuiz
    \/ RevealReferences
    \/ FinishAndShowScore
    \/ ResetAll

\* the session with toggleBasket called directly, started with PickBank
SpecToggle == InitPick /\ [][NextToggle]_vars

\* the payloads setAnswer is called with
AnswerPayloads ==
    {[chosenIndices |-> <<0>>], [chosenIndices |-> <<1>>],
     [manualScore |-> 1], [manualScore |-> 2]}

NextAnswer ==
    \/ \E id \in BankIds(questions) : CallToggleBasket(id)
    \/ StartQuiz
    \/ RevealReferences
    \/ FinishAndShowScore
    \/ ResetAll
    \/ \E qid \in CallIds, data \in AnswerPayloads : CallSetAnswer(qid, data)

InitAnswer == InitWith(AnswerBank)

\* the session with setAnswer called directly, started with AnswerBank
SpecAnswer == InitAnswer /\ [][NextAnswer]_vars

\* the payloads recorded in the scenario
ScenarioPayloads ==
    {[chosenIndices |-> <<0>>], [chosenIndices |-> <<1>>], [manualScore |-> 2]}

InitScenario == InitWith(ScenarioBank)

\* toggles while picking, then answers recorded for the questions of the
\* basket, reveal and finish
NextScenario ==
    \/ \E id \in BankIds(questions) : CallToggleBasket(id)
    \/ StartQuiz
    \/ \E qid \in ToSet(basket), data \in ScenarioPayloads :
           phase # "pick" /\ CallSetAnswer(qid, data)
    \/ RevealReferences
    \/ FinishAndShowScore
    \/ ResetAll

\* the session of the end-to-end scenario, started with ScenarioBank
SpecScenario == InitScenario /\ [][NextScenario]_vars

\* the new PINs typed into the PIN card
NewPinInputs == {"", "12", "0000"}

NextAdmin ==
    \/ \E t \in Tabs : SetTab(t)
    \/ \E id \in BankIds(questions) : ToggleBasket(id)
    \/ StartQuiz
    \/ ResetAll
    \/ RevealReferences
    \/ FinishAndShowScore
    \/ \E p \in PinInputs : TryAdmin(p)
    \/ ExitAdmin
    \/ \E p \in NewPinInputs : ChangeAdminPin(p)
    \/ \E id \in BankIds(questions), p \in 0..3 : SetManualScore(id, p)

\* the session with login, PIN change and grading, started with AnswerBank
SpecAdmin == InitAnswer /\ [][NextAdmin]_vars

\* the hint texts and ip names typed into the admin cards
HintInputs == {"", "h"}
NewIpInputs == {"", "X", "Z"}

NextPersist ==
    \/ \E t \in Tabs : SetTab(t)
    \/ \E ip \in ips(questions, hints) : SetSelectedIP(ip)
    \/ \E p \in PinInputs : TryAdmin(p)
    \/ ExitAdmin
    \/ \E form \in FormChoices(questions, selectedIP, hints) : SaveQuestion(form)
    \/ \E id \in BankIds(questions), c \in BOOLEAN : DeleteQuestion(id, c)
    \/ \E h \in HintInputs : SaveSpecialHint(h)
    \/ \E n \in NewIpInputs : AddNewIp(n)

\* the admin editing the bank and the hints, started with InitialBank
SpecPersist == Init /\ [][NextPersist]_vars

\* the collections handed to saveQuestions and found in the stores
BankA == <<ManualQuestion(1, "X", "short", "a")>>
BankB == <<ManualQuestion(1, "X", "short", "a"), ManualQuestion(2, "Y", "fill", "b")>>
BankInputs == {<<>>, BankA, BankB}

\* what a localStorage item may hold when the page is opened
ItemInputs ==
    {NoItem, Corrupt, JSONstringifyValue(Null), JSONstringify(<<>>), JSONstringify(BankA)}

\* what /api/questions may hold: a question collection
ApiInputs == {JSONstringify(<<>>), JSONstringify(BankB)}

\* what /questions.json may answer
PublicResponses ==
    {[status |-> "neterr", body |-> NoItem],
     [status |-> "notok", body |-> Corrupt],
     [status |-> "ok", body |-> Corrupt],
     [status |-> "ok", body |-> JSONstringify(<<ManualQuestion(8, "P", "short", "a")>>)]}

\* how a request to /api/questions may end
Statuses == {"neterr", "notok", "ok"}

InitData ==
    /\ InitApp(InitialBank)
    /\ cache = Null
    /\ store \in [questions : ItemInputs, old : ItemInputs]
    /\ api \in ApiInputs
    /\ calls = <<>>
    /\ isDev \in BOOLEAN
    /\ ret = Ret("load", Null, FALSE, FALSE)

NextData ==
    \/ \E a \in BOOLEAN : GetQuestions(a)
    \/ \E i \in 1..MaxCalls, r \in PublicResponses, a1, a2 \in BOOLEAN :
          PublicResolves(i, r, a1, a2)
    \/ \E i \in 1..MaxCalls, st \in Statuses, g \in BOOLEAN : ApiResolves(i, st, g)
    \/ \E Q \in BankInputs, a1, a2 \in BOOLEAN : SaveQuestions(Q, a1, a2)
    \/ \E i \in 1..MaxCalls, d \in BOOLEAN : PostArrives(i, d)
    \/ Reload

\* the module dataSource.js used by any caller, in either build
SpecData == InitData /\ [][NextData]_vars

\* the banks /api/questions may hold when the page is opened
MountBanks == {JSONstringify(<<>>), JSONstringify(BankA), JSONstringify(BankB)}

\* the page opened in the production build; lastOp keeps the bank that was
\* stored when the page was opened
InitMount ==
    /\ tab = "welcome"
    /\ questions = <<>>
    /\ hints = EmptyMap
    /\ selectedIP = ""
    /\ basket = <<>>
    /\ phase = "pick"
    /\ answers = EmptyMap
    /\ adminMode = FALSE
    /\ lsPin = ""
    /\ alertMsg = ""
    /\ nextId = 1
    /\ adminOps = 0
    /\ lsQuestions = NoItem
    /\ lsHints = NoItem
    /\ cache = Null
    /\ store = EmptyStore
    /\ api \in MountBanks
    /\ calls = <<>>
    /\ isDev = FALSE
    /\ ret = Ret("load", Null, FALSE, FALSE)
    /\ lastOp = OpWith("init", 0, [bank |-> api])

NextMount ==
    \/ AppMount
    \/ \E i \in 1..(MaxCalls + 1), st \in Statuses, g \in BOOLEAN : AppFetched(i, st, g)
    \/ \E i \in 1..(MaxCalls + 1), d \in BOOLEAN : PostArrives(i, d)
    \/ AppReload

\* the App of part_000 loading its questions through dataSource.js
SpecMount == InitMount /\ [][NextMount]_vars

----------------------------------------------------------------------------
(* Properties *)

\* the number of basket ids whose question, as the bank now has it, has ip t
BasketCount(t) ==
    Cardinality({i \in 1..Len(basket) :
                    /\ HasQ(questions, basket[i])
                    /\ find(questions, basket[i]).ip = t})

\* toggle(id) would be accepted as an add in the current state
AddAccepted(id) ==
    /\ ~Includes(basket, id)
    /\ HasQ(questions, id)
    /\ Len(basket) < 5
    /\ BasketCount(find(questions, id).ip) < 2

\* toggle(id) would be rejected by one of the caps in the current state
AddRejected(id) ==
    /\ ~Includes(basket, id)
    /\ HasQ(questions, id)
    /\ (Len(basket) >= 5 \/ BasketCount(find(questions, id).ip) >= 2)

\* C1: with a fixed bank, after any sequence of toggles from the empty basket
\* the basket holds at most 5 ids and at most 2 ids of any one ip.
C1_CapInvariant ==
    /\ Len(basket) <= 5
    /\ \A t \in ips(questions, hints) : BasketCount(t) <= 2

\* a toggle was rejected by the total cap alone: the basket is full and the
\* ip of the rejected question has fewer than 2 members in it
C1_Witness ==
    /\ lastOp.op = "toggleBasket"
    /\ alertMsg = AlertTotalCap
    /\ Len(basket) = 5
    /\ BasketCount(find(questions, lastOp.arg).ip) < 2

\* C6: a toggle of an id that is not in the basket while the basket has 5 ids
\* or the ip of the question has 2 basket members changes neither basket,
\* answers nor phase.
C6_RejectedToggleMutatesNothing ==
    [][\A id \in BankIds(questions) :
          (lastOp' = Op("toggleBasket", id) /\ AddRejected(id))
              => UNCHANGED <<basket, answers, phase>>]_vars

\* a toggle was rejected by the per-ip cap while the basket had room
C6_Witness ==
    /\ lastOp.op = "toggleBasket"
    /\ alertMsg = AlertIPCap
    /\ Len(basket) < 5
    /\ AddRejected(lastOp.arg)

\* C7: an accepted add yields the old basket with the id appended; a remove
\* yields the old basket without the id, the other ids in their old order.
C7_BasketOrder ==
    [][\A id \in BankIds(questions) :
          lastOp' = Op("toggleBasket", id) =>
              /\ AddAccepted(id) => basket' = basket \o <<id>>
              /\ Includes(basket, id) =>
                     basket' = SelectSeq(basket, LAMBDA x : x # id)]_vars

\* an id was removed from a basket that keeps at least two other ids
C7_Witness ==
    /\ lastOp.op = "toggleBasket"
    /\ alertMsg = ""
    /\ ~Includes(basket, lastOp.arg)
    /\ Len(basket) >= 2

\* C8: while picking, for every id whose add is accepted, toggling it twice
\* gives back the basket as it was, ids and order.
C8_AddThenRemove ==
    phase = "pick" =>
        \A id \in BankIds(questions) :
            AddAccepted(id) =>
                LET added == toggleBasket(basket, questions, phase, id).basket
                IN toggleBasket(added, questions, phase, id).basket = basket

\* a basket of several ids in an order other than that of the bank, with
\* an id that can still be added, right after a toggle
C8_Witness ==
    /\ lastOp.op = "toggleBasket"
    /\ Len(basket) >= 3
    /\ basket[1] > basket[2]
    /\ \E id \in BankIds(questions) : AddAccepted(id)

\* C3: the phase changes only pick -> running by start, running -> confirm
\* by reveal, confirm -> finished by finish and any phase -> pick by reset;
\* start, reveal and finish leave the phase alone from any other phase.
C3_PhaseOrder ==
    [][/\ phase' # phase =>
              \/ phase = "pick" /\ phase' = "running" /\ lastOp'.op = "startQuiz"
              \/ phase = "running" /\ phase' = "confirm"
                    /\ lastOp'.op = "revealReferences"
              \/ phase = "confirm" /\ phase' = "finished"
                    /\ lastOp'.op = "finishAndShowScore"
              \/ phase' = "pick" /\ lastOp'.op = "resetAll"
       /\ (lastOp'.op = "startQuiz" /\ phase # "pick") => phase' = phase
       /\ (lastOp'.op = "revealReferences" /\ phase # "running") => phase' = phase
       /\ (lastOp'.op = "finishAndShowScore" /\ phase # "confirm") => phase' = phase
      ]_vars

\* the session went through all phases and start was then used again
C3_Witness ==
    /\ phase = "finished"
    /\ lastOp.op = "startQuiz"

\* C4 as stated: reset is available in every phase and leaves phase pick,
\* an empty basket and no answers.
C4_ResetInEveryPhase ==
    /\ ENABLED ResetAll
    /\ lastOp.op = "resetAll" =>
           phase = "pick" /\ basket = <<>> /\ answers = EmptyMap

\* C4 amended: reset is available in the phases running, confirm and
\* finished and leaves phase pick, an empty basket and no answers.
C4_ResetAfterStart ==
    /\ phase \in {"running", "confirm", "finished"} => ENABLED ResetAll
    /\ lastOp.op = "resetAll" =>
           phase = "pick" /\ basket = <<>> /\ answers = EmptyMap

\* reset has just run
C4_Witness ==
    /\ lastOp.op = "resetAll"
    /\ tab = "welcome"

\* C5: start with an empty basket changes neither phase, basket, answers
\* nor tab, be it the click on the disabled button or the call of startQuiz
\* itself, which raises the alert; start with a non-empty basket while
\* picking sets phase running.
C5_Start ==
    [][lastOp'.op = "startQuiz" =>
          /\ Len(basket) = 0 =>
                 /\ phase' = "pick" /\ UNCHANGED <<phase, basket, answers, tab>>
                 /\ startQuiz(basket, phase, tab)
                        = [phase |-> "pick", tab |-> tab, alert |-> AlertEmptyBasket]
          /\ (Len(basket) > 0 /\ phase = "pick") => phase' = "running"]_vars

\* start was used with an empty basket
C5_Witness ==
    /\ lastOp.op = "startQuiz"
    /\ basket = <<>>
    /\ tab = "quiz"

\* C9 as stated: in every reachable state, administrator edits included, the
\* basket holds at most 5 ids and at most 2 ids of any one current ip.
C9_BasketInvariantEverywhere ==
    /\ Len(basket) <= 5
    /\ \A i \in 1..Len(questions) : BasketCount(questions[i].ip) <= 2

\* the basket without the ids that are not in the bank
PresentBasket == SelectSeq(basket, LAMBDA id : HasQ(questions, id))

\* C10: a basket id that is absent from the bank adds nothing to total, byIP
\* and byLevel and is not counted in the per-ip counts: summary and counts
\* are those of the basket without it.
C10_DeletedQuestion ==
    /\ scoreSummary(basket, questions, answers)
           = scoreSummary(PresentBasket, questions, answers)
    /\ perIPCounts(basket, questions) = perIPCounts(PresentBasket, questions)
    /\ \A t \in DOMAIN perIPCounts(basket, questions) :
           perIPCounts(basket, questions)[t] = BasketCount(t)

\* a graded question of the basket was deleted and another one scores
C10_Witness ==
    /\ \E i \in 1..Len(basket) :
           /\ ~HasQ(questions, basket[i])
           /\ basket[i] \in DOMAIN answers
           /\ "manualScore" \in DOMAIN answers[basket[i]]
           /\ answers[basket[i]].manualScore > 0
    /\ scoreSummary(basket, questions, answers).total > 0

\* the chosen indices of an answer record as a set, empty when there is none
ChosenSet(id) ==
    IF id \in DOMAIN answers /\ "chosenIndices" \in DOMAIN answers[id]
    THEN ToSet(answers[id].chosenIndices)
    ELSE {}

\* C2 as stated: a multiple-choice question of the basket gains its level
\* points when the chosen set equals the correct set, and 0 otherwise.
C2_ExactMatch ==
    \A i \in 1..Len(basket) :
        HasQ(questions, basket[i]) =>
            LET q == find(questions, basket[i])
            IN q.type = "mcq" =>
                   gained(q, answers) =
                       IF ChosenSet(q.id) = ToSet(q.correctIndices)
                       THEN LEVEL_POINTS[q.level]
                       ELSE 0

\* C11: toggleBasket of an id that is neither in the basket nor in the bank
\* leaves the basket as it is and raises nothing.
C11_UnknownIdNoOp ==
    [][\A id \in CallIds :
          (/\ lastOp' = Op("toggleBasket", id)
           /\ ~Includes(basket, id)
           /\ ~HasQ(questions, id))
              => basket' = basket /\ alertMsg' = ""]_vars

\* toggleBasket was called while picking with an id that no question has,
\* the basket holding some ids and having room
C11_Witness ==
    /\ lastOp.op = "toggleBasket"
    /\ ~HasQ(questions, lastOp.arg)
    /\ ~Includes(basket, lastOp.arg)
    /\ phase = "pick"
    /\ Len(basket) \in 1..4

\* the points awarded to the question at place i of the basket
AwardedAt(i) ==
    IF HasQ(questions, basket[i])
    THEN gained(find(questions, basket[i]), answers)
    ELSE 0

\* the sum of the points awarded at the basket places I
RECURSIVE SumAwarded(_)
SumAwarded(I) ==
    IF I = {} THEN 0
    ELSE LET i == CHOOSE j \in I : TRUE
         IN AwardedAt(i) + SumAwarded(I \ {i})

\* the basket places whose question is in the bank
PresentPlaces == {i \in 1..Len(basket) : HasQ(questions, basket[i])}

\* C12: a manually graded question of the basket is awarded its recorded
\* manualScore, or 0 without one, and the awarded points enter total, the
\* byIP entry of its ip and the byLevel entry of its level unchanged.
C12_ManualPassthrough ==
    /\ \A i \in PresentPlaces :
           LET q == find(questions, basket[i])
           IN q.type # "mcq" =>
                  AwardedAt(i) =
                      IF q.id \in DOMAIN answers
                            /\ "manualScore" \in DOMAIN answers[q.id]
                      THEN answers[q.id].manualScore
                      ELSE 0
    /\ LET s == scoreSummary(basket, questions, answers)
       IN /\ s.total = SumAwarded(PresentPlaces)
          /\ \A t \in ips(questions, hints) :
                 Get(s.byIP, t, 0) =
                     SumAwarded({i \in PresentPlaces :
                                    find(questions, basket[i]).ip = t})
          /\ \A l \in Levels :
                 s.byLevel[l] =
                     SumAwarded({i \in PresentPlaces :
                                    find(questions, basket[i]).level = l})

\* two manually graded questions of the basket are graded, one of them
\* with a score between 0 and its level points
C12_Witness ==
    /\ \E i \in PresentPlaces :
           LET q == find(questions, basket[i])
           IN /\ q.type # "mcq"
              /\ AwardedAt(i) > 0
              /\ AwardedAt(i) < LEVEL_POINTS[q.level]
    /\ \E i, j \in PresentPlaces :
           i # j /\ AwardedAt(i) > 0 /\ AwardedAt(j) > 0

\* C13 as stated: every manually graded question of the bank that has a
\* recorded manualScore has it between 0 and the points of its current level.
C13_ManualScoreRange ==
    \A i \in 1..Len(questions) :
        LET q == questions[i]
        IN (/\ q.type # "mcq"
            /\ q.id \in DOMAIN answers
            /\ "manualScore" \in DOMAIN answers[q.id])
               => /\ answers[q.id].manualScore >= 0
                  /\ answers[q.id].manualScore <= LEVEL_POINTS[q.level]

\* the score summary the finished card shows in the current state
ShownScore == scoreSummary(basket, questions, answers)

\* C14 as stated: from finished to finished, whatever the operation, the
\* score summary shown stays the same.
C14_FinishFreezesScore ==
    [][(phase = "finished" /\ phase' = "finished") => ShownScore' = ShownScore]_vars

\* C15: while the phase is running, confirm or finished no call of
\* toggleBasket changes the basket and only reset changes it; start, reveal
\* and finish keep it, so the basket at finish is the one at the start.
C15_BasketFrozen ==
    [][/\ (phase # "pick" /\ lastOp'.op = "toggleBasket") => basket' = basket
       /\ (phase # "pick" /\ basket' # basket) => lastOp'.op = "resetAll"
       /\ lastOp'.op \in {"startQuiz", "revealReferences", "finishAndShowScore"}
              => basket' = basket]_vars

\* toggleBasket was called after the start with an id that picking would
\* have added or removed
C15_Witness ==
    /\ phase \in {"running", "confirm", "finished"}
    /\ lastOp.op = "toggleBasket"
    /\ (AddAccepted(lastOp.arg) \/ Includes(basket, lastOp.arg))
    /\ Len(basket) >= 2

\* C16 as stated: toggleBasket does not read the phase; for the same basket,
\* bank and id its outcome is the same in every phase.
C16_PhaseAgnostic ==
    \A id \in CallIds, ph \in Phases :
        toggleBasket(basket, questions, ph, id)
            = toggleBasket(basket, questions, "pick", id)

\* C16 amended: toggleBasket reads the phase. While picking its outcome is
\* the remove, the add or the rejection that basket, bank and id determine;
\* in every other phase it changes nothing and raises nothing.
C16_PickOnly ==
    [][\A id \in CallIds :
          lastOp' = Op("toggleBasket", id) =>
              IF phase = "pick"
              THEN /\ Includes(basket, id) =>
                          basket' = SelectSeq(basket, LAMBDA x : x # id)
                   /\ AddAccepted(id) => basket' = basket \o <<id>>
                   /\ AddRejected(id) => basket' = basket /\ alertMsg' # ""
                   /\ (~Includes(basket, id) /\ ~HasQ(questions, id)) =>
                          basket' = basket
              ELSE basket' = basket /\ alertMsg' = ""]_vars

\* toggleBasket was called after the reveal with an id that the caps reject
\* while picking: no alert was raised
C16_Witness ==
    /\ phase \in {"confirm", "finished"}
    /\ lastOp.op = "toggleBasket"
    /\ AddRejected(lastOp.arg)
    /\ alertMsg = ""

\* C17: the answer map changes only outside pick or by reset, and whenever
\* the phase is pick the answer map is empty.
C17_NoAnswersWhilePicking ==
    [][/\ answers' # answers => (phase # "pick" \/ lastOp'.op = "resetAll")
       /\ phase' = "pick" => answers' = EmptyMap
       /\ phase = "pick" => answers = EmptyMap]_vars

\* an administrator looks at the cards of a multiple-choice and of a manually
\* graded basket question while picking
C17_Witness ==
    /\ phase = "pick"
    /\ tab = "quiz"
    /\ adminMode
    /\ \E i, j \in PresentPlaces :
           /\ find(questions, basket[i]).type = "mcq"
           /\ find(questions, basket[j]).type # "mcq"

\* the points the payload data earns question q by the scoring rule
PayloadPoints(q, data) ==
    IF q.type = "mcq"
    THEN IF "chosenIndices" \in DOMAIN data
         THEN IF ToSet(data.chosenIndices) = ToSet(q.correctIndices)
              THEN LEVEL_POINTS[q.level]
              ELSE 0
         ELSE gained(q, answers)
    ELSE IF "manualScore" \in DOMAIN data
         THEN data.manualScore
         ELSE gained(q, answers)

FieldsOf(as, qid) == IF qid \in DOMAIN as THEN DOMAIN as[qid] ELSE {}

\* C19: setAnswer(qid, data) sets the fields of data in the record of qid,
\* keeps the other fields of that record and the records of all other ids,
\* and leaves basket, phase and bank alone.
C19_ShallowMerge ==
    [][lastOp'.op = "setAnswer" =>
          LET qid == lastOp'.arg
              data == lastOp'.data
          IN /\ DOMAIN answers' = DOMAIN answers \cup {qid}
             /\ DOMAIN answers'[qid] = FieldsOf(answers, qid) \cup DOMAIN data
             /\ \A f \in DOMAIN data : answers'[qid][f] = data[f]
             /\ \A f \in FieldsOf(answers, qid) \ DOMAIN data :
                    answers'[qid][f] = answers[qid][f]
             /\ \A other \in DOMAIN answers \ {qid} :
                    answers'[other] = answers[other]
             /\ UNCHANGED <<basket, phase, questions>>]_vars

\* setAnswer was called for an id whose record holds both kinds of field,
\* while another id has a record too
C19_Witness ==
    /\ lastOp.op = "setAnswer"
    /\ FieldsOf(answers, lastOp.arg) = {"chosenIndices", "manualScore"}
    /\ \E other \in DOMAIN answers :
           other # lastOp.arg /\ FieldsOf(answers, other) # {}

\* the answer map without the records of ids that are not in the basket
BasketAnswers == [id \in DOMAIN answers \cap ToSet(basket) |-> answers[id]]

\* C20: the score summary depends on basket, bank and the records of the
\* basket ids only: it equals the summary computed without all other
\* records, so two states that agree on these have the same summary.
C20_StaleAnswersIgnored ==
    scoreSummary(basket, questions, answers)
        = scoreSummary(basket, questions, BasketAnswers)

\* a question outside the basket has a record that would score, an id that
\* no question has has a record too, and the basket scores
C20_Witness ==
    /\ \E i \in 1..Len(questions) :
           /\ ~Includes(basket, questions[i].id)
           /\ gained(questions[i], answers) > 0
    /\ \E id \in DOMAIN answers : ~HasQ(questions, id)
    /\ ShownScore.total > 0

\* C21: a toggle of a third question of ip X is rejected by the per-ip cap,
\* and the session with basket [q1, q2], q1 answered {1} and q2 graded 2
\* gives, once finished, total 4, byIP X:2 Y:2 and byLevel a:2 b:2 c:0 s:0.
C21_EndToEnd ==
    [][/\ \A id \in BankIds(questions) :
              (/\ lastOp' = Op("toggleBasket", id)
               /\ phase = "pick"
               /\ ~Includes(basket, id)
               /\ find(questions, id).ip = "X"
               /\ BasketCount("X") = 2)
                  => basket' = basket /\ alertMsg' = AlertIPCap
       /\ (/\ phase' = "finished"
           /\ basket' = <<1, 2>>
           /\ answers' = (1 :> [chosenIndices |-> <<1>>])
                             @@ (2 :> [manualScore |-> 2]))
              => ShownScore' =
                     [total |-> 4,
                      byIP |-> ("X" :> 2) @@ ("Y" :> 2),
                      byLevel |-> [a |-> 2, b |-> 2, c |-> 0, s |-> 0]]]_vars

\* the scenario has run to its end: the finish was the last step, the basket
\* is [q1, q2] and the two answers are recorded
C21_Witness ==
    /\ phase = "finished"
    /\ lastOp.op = "finishAndShowScore"
    /\ basket = <<1, 2>>
    /\ answers = (1 :> [chosenIndices |-> <<1>>]) @@ (2 :> [manualScore |-> 2])

\* a multiple-choice question with at least 2 options, none of them empty,
\* at least 1 correct index and every correct index that of an option
WellFormedMcq(q) ==
    /\ Len(q.options) >= 2
    /\ \A i \in 1..Len(q.options) : q.options[i] # ""
    /\ Len(q.correctIndices) >= 1
    /\ \A i \in 1..Len(q.correctIndices) :
           q.correctIndices[i] >= 0 /\ q.correctIndices[i] < Len(q.options)

\* C22 as stated: every multiple-choice question that saveQuestion has
\* stored in the bank is well-formed, a save that would store another one
\* being rejected.
C22_SavedMcqWellFormed ==
    \A i \in 1..Len(questions) :
        questions[i].type = "mcq" => WellFormedMcq(questions[i])

\* the recorded manual scores: id -> manualScore
ManualScores ==
    [id \in {x \in DOMAIN answers : "manualScore" \in DOMAIN answers[x]}
        |-> answers[id].manualScore]

\* the PIN in force: the stored one, 1234 when none is stored
StoredPin == IF lsPin = "" THEN "1234" ELSE lsPin

\* C23: a manualScore is recorded or changed only in a step taken in admin
\* mode, and admin mode is switched on only by tryAdmin with the PIN in force.
C23_AdminOnlyGrading ==
    [][/\ (ManualScores' # ManualScores /\ lastOp'.op # "resetAll") => adminMode
       /\ (~adminMode /\ adminMode') =>
              \E p \in PinInputs : p = StoredPin /\ TryAdmin(p)]_vars

\* a question was graded, the PIN was changed, admin mode was left, and a
\* login with the default PIN has just been refused
C23_Witness ==
    /\ \E id \in DOMAIN ManualScores : ManualScores[id] > 0
    /\ lsPin = "0000"
    /\ ~adminMode
    /\ alertMsg = AlertBadPin

\* C24: after every handler the stored items are the serialisations of the
\* in-memory question collection and of the in-memory hint map: each change
\* is handed to saveQuestions / saveHints whole, and the last saved value is
\* the current one.
C24_PersistOnMutation ==
    /\ lsQuestions = [kind |-> "array", items |-> questions]
    /\ lsHints = [kind |-> "object", fields |-> hints]

\* the bank and the hints were both changed by the admin
C24_Witness ==
    /\ questions # InitialBank
    /\ hints # EmptyMap
    /\ lsQuestions.items = questions
    /\ lsHints.fields = hints

\* what getQuestions() resolves to in a freshly loaded page (cache null)
\* over the items st, when /questions.json answers resp
LoadedQuestions(st, resp) ==
    LET r == getQuestionsStored(st, TRUE)
    IN  IF r.hit THEN r.value
        ELSE getQuestionsPublic(r.store, resp, TRUE, TRUE).value

Posts(cs) == {i \in 1..Len(cs) : cs[i].fn = "post"}

\* C26: in production, when the page is opened over a non-empty stored
\* bank, loading sends no POST with an empty collection, and once the load
\* is over (the fetch settled, every request arrived) the stored bank is the
\* one that was stored when the page was opened.
C26_LoadKeepsBank ==
    [][lastOp'.data.bank.items # <<>> =>
          /\ \A i \in Posts(calls') :
                 calls'[i].body.items = <<>> =>
                     \E k \in Posts(calls) : calls[k] = calls'[i]
          /\ (lastOp'.op = "loaded" /\ calls' = <<>>) => api' = lastOp'.data.bank]_vars

\* the option texts marked correct in a form, and those a stored question
\* designates as correct
Marked(form) == {form.options[i + 1] : i \in ToSet(form.correctIndices)}
Designated(q) == {q.options[i + 1] : i \in ToSet(q.correctIndices)}

\* C27: whenever the admin can save, every multiple-choice form with a blank
\* option field that saveQuestion accepts is stored with the marked option
\* texts among its options and as exactly the options its correctIndices
\* designate.
C27_CorrectAnswersKept ==
    (tab = "admin" /\ adminMode /\ adminOps < MaxAdminOps) =>
        \A form \in FormChoices(questions, selectedIP, hints) :
            LET r == saveQuestion(questions, form, nextId)
                id == IF form.id # 0 THEN form.id ELSE nextId
            IN  (form.type = "mcq" /\ r.alert = ""
                 /\ \E k \in 1..Len(form.options) : form.options[k] = "") =>
                    LET q == find(r.questions, id)
                    IN  /\ Marked(form) \subseteq ToSet(q.options)
                        /\ Marked(form) = Designated(q)

\* the sum of the values of a map
RECURSIVE SumMap(_)
SumMap(m) ==
    IF DOMAIN m = {} THEN 0
    ELSE LET k == CHOOSE x \in DOMAIN m : TRUE
         IN m[k] + SumMap([x \in DOMAIN m \ {k} |-> m[x]])

\* the sum of the level points of the questions at the basket places I
RECURSIVE SumLevelPoints(_)
SumLevelPoints(I) ==
    IF I = {} THEN 0
    ELSE LET i == CHOOSE j \in I : TRUE
         IN LEVEL_POINTS[find(questions, basket[i]).level] + SumLevelPoints(I \ {i})

\* C28: in every state the summary's total is the sum of its byIP entries and
\* the sum of its byLevel entries, and is at most the sum of the level points
\* of the basket questions that are in the bank.
C28_TotalsConsistent ==
    /\ ShownScore.total = SumMap(ShownScore.byIP)
    /\ ShownScore.total = SumMap(ShownScore.byLevel)
    /\ ShownScore.total <= SumLevelPoints(PresentPlaces)

\* C29: in every state with the phase running, confirm or finished the basket
\* holds at least one id, and in every phase no id is in the basket twice.
C29_StartedHasBasket ==
    /\ phase \in {"running", "confirm", "finished"} => Len(basket) > 0
    /\ \A i, j \in 1..Len(basket) : basket[i] = basket[j] => i = j

\* a started session whose basket holds two ids, one of a question the admin
\* has deleted since
C29_Witness ==
    /\ phase \in {"running", "confirm", "finished"}
    /\ Len(basket) = 2
    /\ \E i \in 1..Len(basket) : ~HasQ(questions, basket[i])

\* C30: every getQuestions() settles with an array; in production a fetch
\* that fails, is answered not-OK or carries no JSON settles it with the empty
\* array; and once a call has resolved in the page, a call of getQuestions()
\* returns the cache at once, reading neither the storage nor the network.
C30_NeverFailsAndCaches ==
    [][/\ ret'.fn = "getQuestions" => ret'.value.type = "array"
       /\ \A i \in 1..Len(calls), st \in Statuses, g \in BOOLEAN :
              (ApiResolves(i, st, g) /\ (st # "ok" \/ g)) => ret'.value = Array(<<>>)
       /\ (ret.resolved /\ \E a \in BOOLEAN : GetQuestions(a)) =>
              /\ ret' = Ret("getQuestions", cache, FALSE, TRUE)
              /\ UNCHANGED <<cache, store, calls>>]_vars


\* in production the fetch failed although /api/questions holds BankB, the
\* call resolved to the empty array, and a later getQuestions() has just
\* returned that cached array without a request
C30_Witness ==
    /\ ~isDev
    /\ api = JSONstringify(BankB)
    /\ calls = <<>>
    /\ cache = Array(<<>>)
    /\ ret = Ret("getQuestions", Array(<<>>), FALSE, TRUE)

====
